---- MODULE Spec2Model ----
(***************************************************************************)
(* Verification model of the route-following behaviour and the behaviour   *)
(* stack of the self-driving-car brain crate.                              *)
(*                                                                         *)
(*   Spec       FollowRoute (brain/src/routing/behavior.rs): execute_old,  *)
(*              advance, draw, go and handle_error, one step per call.     *)
(*   SpecStack  the behaviour stack with WallHit                           *)
(*              (brain/src/behavior/strike/wall_hit.rs) on top of it.      *)
(*   SpecIntercept  estimate_intercept_car_ball (brain/src/predict/        *)
(*              intercept.rs), one step per loop iteration.                *)
(*   SpecGround GroundIntercept and GroundInterceptStraight planners       *)
(*              (brain/src/routing/plan/ground_intercept.rs).              *)
(*   SpecTurn   the Turn segment and its Turner                            *)
(*              (brain/src/routing/segments/turn.rs), one step per tick.   *)
(***************************************************************************)
EXTENDS Integers, Sequences, FiniteSets, TLC

\* ---------------------------------------------------------------- bounds
\* ticks (calls of execute_old) explored
MaxTicks == 3
\* longest chain of planners a route can consist of
MaxChain == 3
\* deepest behaviour stack explored
MaxDepth == 3
\* engine steps explored in the stack specification
MaxSteps == 4

\* ---------------------------------------------------------------- values
\* Option<T>: None is the empty sequence, Some(x) the one-element sequence
None == << >>
Some(x) == << x >>

\* control commands a segment runner can yield (PlayerInput values)
Commands == {"input_a", "input_b"}
\* behaviours RoutePlanError::recover can produce
Recoveries == {"recover_a", "recover_b"}

\* strategy::Action
Yield(i) == [kind |-> "Yield", arg |-> i]
Return == [kind |-> "Return", arg |-> "-"]
Abort == [kind |-> "Abort", arg |-> "-"]
Call(b) == [kind |-> "Call", arg |-> b]
RootCall(b) == [kind |-> "RootCall", arg |-> b]
TailCall(b) == [kind |-> "TailCall", arg |-> b]

VARIABLES
    \* FollowRoute fields
    planner, current, never_recover, same_ball_trajectory,
    \* control position inside execute_old and the arguments of the call in progress
    pc, arg, caller, depth,
    \* ctx: the tick whose Context is passed to execute_old
    tick,
    \* observation: actions returned by the call in progress / last call,
    \* events of that call, plan calls per planner, first planning tick,
    \* planners whose provisional expansion succeeded, how the route ended
    \* (Return, or a planning error), and whether execute_old was called after that
    returned, trace, planCalls, firstPlanTick, expandedOk, ended, resumed,
    \* behaviour stack, engine step counter, run of consecutive TailCalls
    stack, steps, tailRun, tailBase, lastStep, lastAct,
    \* the intercept search in progress, the ground planner call, the Turn
    \* segment with its runner
    ic, gp, tn,
    \* the debug sink EEG with its worker thread, and the call of a function
    \* or behaviour explored on its own
    eeg, pf

frVars == << planner, current, never_recover, same_ball_trajectory, pc, arg, caller,
             depth, tick, returned, trace, planCalls, firstPlanTick, expandedOk, ended, resumed >>
stVars == << stack, steps, tailRun, tailBase, lastStep, lastAct >>
vars == << planner, current, never_recover, same_ball_trajectory, pc, arg, caller,
           depth, tick, returned, trace, planCalls, firstPlanTick, expandedOk, ended, resumed,
           stack, steps, tailRun, tailBase, lastStep, lastAct, ic, gp, tn, eeg, pf >>
\* the variables of the intercept search, the ground planners and the Turn
fnVars == << ic, gp, tn, eeg, pf >>

\* one observed event of a call of execute_old
Ev(e, p, out, a, n) == [e |-> e, p |-> p, out |-> out, arg |-> a, n |-> n]

\* ------------------------------------------------------- FollowRoute code

\* what error.recover(ctx) can return
RecoverOutcomes == {None} \cup {Some(b) : b \in Recoveries}

\* handle_error: the action for a planning error whose recover() gave `recovered`
handle_error_always_recover(nr, recovered) ==
    IF recovered # None THEN RootCall(recovered[1]) ELSE Abort
handle_error_fixed_recovery(nr, recovered) ==
    IF recovered # None
    THEN (IF nr THEN Abort ELSE RootCall("recover_a"))
    ELSE Abort
handle_error(nr, recovered) ==
    IF recovered # None
    THEN (IF nr THEN Abort ELSE RootCall(recovered[1]))
    ELSE Abort

\* the Option dance of execute_old: the slot left behind by planner.take()
TakePlanner_as_ref(slot) == slot
TakePlanner(slot) == None

\* the slot left behind by current.take() in go
TakeCurrent_as_ref(slot) == slot
TakeCurrent(slot) == None

\* the context advance hands to PlanningContext::plan
PlanningCtx_of_first_plan(now, first) == IF first = 0 THEN now ELSE first
PlanningCtx(now, first) == now

\* the match on the runner's SegmentRunAction in go
RunnerMatch_failure_continues(out) ==
    CASE out = "Yield" -> "return"
      [] out = "Success" -> "success"
      [] out = "Failure" -> "success"
RunnerMatch_success_aborts(out) ==
    CASE out = "Yield" -> "return"
      [] out = "Success" -> "failure"
      [] out = "Failure" -> "failure"
RunnerMatch_yield_continues(out) ==
    CASE out = "Yield" -> "success"
      [] out = "Success" -> "success"
      [] out = "Failure" -> "failure"
RunnerMatch(out) ==
    CASE out = "Yield" -> "return"
      [] out = "Success" -> "success"
      [] out = "Failure" -> "failure"

\* advance: whether the plan is committed (a runner is created) for the
\* results of plan() and provisional_expand()
Commits_before_expansion(planOut, expandOut) == planOut = "Ok"
Commits(planOut, expandOut) == planOut = "Ok" /\ expandOut = "Ok"


\* what SameBallTrajectory::execute_old can return when the rule is installed
SbtOutcomes(installed) == IF installed THEN {None, Some(Abort)} ELSE {None}

\* what PlanningContext::plan can return for the planner at position p of the
\* chain: an error (with what its recover() gives), or a plan with or without
\* a deferred next planner
PlanOutcomes(p) ==
    {[out |-> "Err", next |-> FALSE, rec |-> r] : r \in RecoverOutcomes}
    \cup {[out |-> "Ok", next |-> n, rec |-> None] :
            n \in (IF p < MaxChain THEN BOOLEAN ELSE {FALSE})}

\* what plan.provisional_expand can return: the tail of provisionally
\* planned segments, or the error of the deferred planner at step k
ExpandOutcomes(p, hasNext) ==
    IF ~hasNext
    THEN {[out |-> "Ok", n |-> 0, rec |-> None]}
    ELSE {[out |-> "Ok", n |-> k, rec |-> None] : k \in 1..(MaxChain - p)}
         \cup {[out |-> "Err", n |-> k, rec |-> r] :
                 k \in 1..(MaxChain - p), r \in RecoverOutcomes}

\* what a SegmentRunner's execute_old can return
RunOutcomes ==
    {[out |-> "Yield", arg |-> c] : c \in Commands}
    \cup {[out |-> "Success", arg |-> "-"], [out |-> "Failure", arg |-> "-"]}

NextArg(hasNext) == IF hasNext THEN "next" ELSE "last"
RecArg(rec) == IF rec = None THEN "-" ELSE rec[1]
RecOut(rec) == IF rec = None THEN "None" ELSE "Some"

\* a panic: a failed unwrap or assert ends the call without an Action
Panic(where) ==
    /\ pc' = "panic"
    /\ trace' = Append(trace, Ev("panic", 0, where, "-", 0))
    /\ UNCHANGED << planner, current, never_recover, same_ball_trajectory, arg,
                    caller, depth, tick, returned, planCalls, firstPlanTick, expandedOk, ended, resumed >>

\* a return of execute_old with `action`
Returns(action) ==
    /\ pc' = "idle"
    /\ returned' = Append(returned, action)

\* FollowRoute::new / new_boxed, then the never_recover and
\* same_ball_trajectory builders
InitFollowRoute ==
    /\ planner = Some(1)
    /\ current = None
    /\ never_recover \in BOOLEAN
    /\ same_ball_trajectory \in BOOLEAN
    /\ pc = "idle"
    /\ arg = 0
    /\ caller = "-"
    /\ depth = 0
    /\ tick = 0
    /\ returned = << >>
    /\ trace = << >>
    /\ planCalls = [p \in 1..MaxChain |-> 0]
    /\ firstPlanTick = 0
    /\ expandedOk = {}
    /\ ended = "-"
    /\ resumed = FALSE

\* execute_old up to its first call: the same-ball-trajectory rule, then
\* the Option dance when there is no current plan
Execute_old ==
    /\ pc = "idle"
    /\ tick < MaxTicks
    /\ tick' = tick + 1
    /\ resumed' = (resumed \/ ended # "-")
    /\ \E sbt \in SbtOutcomes(same_ball_trajectory) :
        IF sbt # None
        THEN /\ trace' = << Ev("sbt", 0, "Some", "-", 0) >>
             /\ returned' = << sbt[1] >>
             /\ pc' = "idle"
             /\ depth' = 0
             /\ UNCHANGED << planner, current, arg, caller >>
        ELSE /\ returned' = << >>
             /\ IF current = None
                THEN IF planner = None
                     THEN /\ pc' = "panic"
                          /\ trace' = << Ev("panic", 0, "planner.take().unwrap()", "-", 0) >>
                          /\ depth' = 0
                          /\ UNCHANGED << planner, current, arg, caller >>
                     ELSE /\ planner' = TakePlanner(planner)
                          /\ arg' = planner[1]
                          /\ caller' = "execute_old"
                          /\ pc' = "advance"
                          /\ depth' = 0
                          /\ trace' = << >>
                          /\ UNCHANGED current
                ELSE /\ pc' = "draw"
                     /\ depth' = 0
                     /\ trace' = << >>
                     /\ UNCHANGED << planner, current, arg, caller >>
    /\ UNCHANGED << never_recover, same_ball_trajectory, planCalls, firstPlanTick,
                    expandedOk, ended >>

\* advance(planner, ctx): plan, provisionally expand, then create the runner
\* and commit; an error of either step returns handle_error's action
Advance ==
    /\ pc = "advance"
    /\ IF current # None
       THEN Panic("assert!(self.current.is_none())")
       ELSE \E po \in PlanOutcomes(arg) :
            LET ctx == PlanningCtx(tick, firstPlanTick)
                planEv == Ev("plan", arg, po.out, NextArg(po.next), ctx)
            IN
            /\ planCalls' = [planCalls EXCEPT ![arg] = @ + 1]
            /\ firstPlanTick' = IF firstPlanTick = 0 THEN tick ELSE firstPlanTick
            /\ UNCHANGED << planner, never_recover, same_ball_trajectory, arg,
                            caller, tick, resumed >>
            /\ IF po.out = "Err"
               THEN /\ expandedOk' = expandedOk
                    /\ ended' = "PlanError"
                    /\ trace' = trace \o << planEv,
                                    Ev("recover", arg, RecOut(po.rec), RecArg(po.rec), 0) >>
                    /\ Returns(handle_error(never_recover, po.rec))
                    /\ UNCHANGED << current, depth >>
               ELSE \E xo \in ExpandOutcomes(arg, po.next) :
                    LET expEv == Ev("expand", arg, xo.out, "-", xo.n) IN
                    /\ expandedOk' = IF xo.out = "Ok" THEN expandedOk \cup {arg}
                                                     ELSE expandedOk
                    /\ IF Commits(po.out, xo.out)
                       THEN /\ trace' = trace \o << planEv, expEv,
                                           Ev("run", arg, "-", "-", 0) >>
                            /\ current' = Some([plan |-> [segment |-> arg,
                                                          next |-> IF po.next
                                                                   THEN Some(arg + 1)
                                                                   ELSE None,
                                                          ctx |-> ctx],
                                                runner |-> [segment |-> arg, runs |-> 0],
                                                provisional_expansion_tail |->
                                                    IF xo.out = "Ok" THEN xo.n ELSE 0])
                            /\ pc' = IF caller = "execute_old" THEN "draw" ELSE "go"
                            /\ depth' = IF caller = "go" THEN depth + 1 ELSE depth
                            /\ UNCHANGED << returned, ended >>
                       ELSE /\ ended' = "PlanError"
                            /\ trace' = trace \o << planEv, expEv,
                                           Ev("recover", arg + xo.n, RecOut(xo.rec),
                                              RecArg(xo.rec), 0) >>
                            /\ Returns(handle_error(never_recover, xo.rec))
                            /\ UNCHANGED << current, depth >>

\* what the debug sink (ctx.eeg) does with the drawables handed to it
SinkOutcomes == {"drawn", "dropped"}

\* execute_old after self.draw(ctx): draw returns nothing and go is called
AfterDraw_needs_sink(sink) == IF sink = "drawn" THEN "go" ELSE "abort"
AfterDraw(sink) == "go"

\* draw borrows the current plan: self.current.as_ref()
BorrowCurrent_take(slot) == None
BorrowCurrent(slot) == slot

\* ProvisionalPlanExpansion::new(segment, tail): the committed segment
\* followed by the stored tail
ProvisionalPlanExpansion(cur) ==
    [first |-> cur.plan.segment, n |-> 1 + cur.provisional_expansion_tail]

\* draw: rebuild the provisional expansion of the current plan and draw its
\* segments; nothing of FollowRoute is written
Draw ==
    /\ pc = "draw"
    /\ IF current = None
       THEN Panic("draw: self.current.as_ref().unwrap()")
       ELSE \E sink \in SinkOutcomes :
            /\ trace' = Append(trace, Ev("draw", ProvisionalPlanExpansion(current[1]).first,
                                         sink, "-",
                                         ProvisionalPlanExpansion(current[1]).n))
            /\ current' = BorrowCurrent(current)
            /\ IF AfterDraw(sink) = "go"
               THEN /\ pc' = "go"
                    /\ depth' = 1
                    /\ UNCHANGED returned
               ELSE /\ Returns(Abort)
                    /\ UNCHANGED depth
            /\ UNCHANGED << planner, never_recover, same_ball_trajectory, arg,
                            caller, tick, planCalls, firstPlanTick, expandedOk, ended, resumed >>

\* go: run the current runner once; Yield and Failure return, Success takes
\* the current plan and advances to its next planner (or returns)
Go ==
    /\ pc = "go"
    /\ IF current = None
       THEN Panic("go: self.current.as_mut().unwrap()")
       ELSE \E ro \in RunOutcomes :
            LET cur == current[1]
                ran == [cur EXCEPT !.runner.runs = @ + 1]
                m == RunnerMatch(ro.out)
            IN
            /\ trace' = Append(trace, Ev("exec", cur.plan.segment, ro.out, ro.arg,
                                         IF cur.plan.next = None THEN 0 ELSE 1))
            /\ UNCHANGED << planner, never_recover, same_ball_trajectory, tick,
                            planCalls, firstPlanTick, expandedOk, resumed, depth >>
            /\ CASE m = "return" ->
                      /\ Returns(Yield(ro.arg))
                      /\ current' = Some(ran)
                      /\ UNCHANGED << arg, caller, ended >>
                 [] m = "failure" ->
                      /\ Returns(Abort)
                      /\ current' = Some(ran)
                      /\ UNCHANGED << arg, caller, ended >>
                 [] m = "success" ->
                      /\ current' = TakeCurrent(Some(ran))
                      /\ IF cur.plan.next = None
                         THEN /\ Returns(Return)
                              /\ ended' = "Return"
                              /\ UNCHANGED << arg, caller >>
                         ELSE /\ arg' = cur.plan.next[1]
                              /\ caller' = "go"
                              /\ pc' = "advance"
                              /\ UNCHANGED << returned, ended >>

\* the stack variables, parked while FollowRoute is explored
StackParked ==
    /\ stack = << >>
    /\ steps = 0
    /\ tailRun = 0
    /\ tailBase = 0
    /\ lastStep = "-"
    /\ lastAct = Return

\* the intercept search, the ground planners and the Turn, parked
FunctionsParked ==
    /\ ic = [pc |-> "parked"]
    /\ gp = [pc |-> "parked"]
    /\ tn = [pc |-> "parked"]
    /\ eeg = [pc |-> "parked"]
    /\ pf = [pc |-> "parked"]

Init == InitFollowRoute /\ StackParked /\ FunctionsParked

Next ==
    \/ Execute_old /\ UNCHANGED << stVars, fnVars >>
    \/ Advance /\ UNCHANGED << stVars, fnVars >>
    \/ Draw /\ UNCHANGED << stVars, fnVars >>
    \/ Go /\ UNCHANGED << stVars, fnVars >>

Spec == Init /\ [][Next]_vars

\* --------------------------------------------------- FollowRoute: claims

\* a call of execute_old has returned and none is in progress
Returned == pc = "idle" /\ tick > 0
\* positions of the events of kind e with outcome out in the last call
Events(e, out) == {i \in 1..Len(trace) : trace[i].e = e /\ trace[i].out = out}
\* the last call ended in a planning or expansion error
ErrorEnded == Returned /\ Len(trace) > 0 /\ trace[Len(trace)].e = "recover"
LastEv == trace[Len(trace)]

\* C1: with never_recover set, a planning or expansion error that has a
\* recovery behaviour makes execute return Abort, and RootCall is never
\* returned, whichever planner of the chain failed.
C1_CircuitBreaker ==
    never_recover =>
        /\ \A i \in 1..Len(returned) : returned[i].kind # "RootCall"
        /\ (ErrorEnded /\ LastEv.out = "Some") => returned = << Abort >>
C1_Witness ==
    /\ never_recover
    /\ ErrorEnded /\ LastEv.out = "Some" /\ LastEv.p >= 2
    /\ tick >= 2
    /\ returned = << Abort >>

\* C2 as stated: without never_recover a recoverable error returns RootCall
\* of the recovery behaviour and no runner is executed on that tick.
C2_NoRunnerOnThatTick ==
    (~never_recover /\ ErrorEnded /\ LastEv.out = "Some") =>
        /\ returned = << RootCall(LastEv.arg) >>
        /\ \A i \in 1..Len(trace) : trace[i].e # "exec"
\* C2 amended: without never_recover a recoverable error returns RootCall of
\* exactly that error's recovery behaviour, and no runner is created or
\* executed for the failed plan; the only runners executed in that call are
\* those of earlier segments, which reported Success before the error.
C2_RootCallRecovery ==
    (~never_recover /\ ErrorEnded /\ LastEv.out = "Some") =>
        /\ returned = << RootCall(LastEv.arg) >>
        /\ current = None
        /\ \A i \in 1..Len(trace) :
              trace[i].e \in {"exec", "run"} =>
                  /\ trace[i].p < arg
                  /\ trace[i].e = "exec" => trace[i].out = "Success"
C2_Witness ==
    /\ ~never_recover
    /\ ErrorEnded /\ LastEv.out = "Some"
    /\ tick >= 2
    /\ trace[1].e = "draw" /\ trace[2].e = "exec"
    /\ returned = << RootCall("recover_b") >>

\* C3: an error without recovery and a runner Failure both return Abort,
\* whatever never_recover is; after a Failure nothing more is planned in that
\* call and the next planner of the failed plan has never been planned.
C3_FatalAndFailureAbort ==
    /\ (ErrorEnded /\ LastEv.out = "None") => returned = << Abort >>
    /\ \A i \in Events("exec", "Failure") :
          /\ i = Len(trace)
          /\ pc = "idle"
          /\ returned = << Abort >>
          /\ current # None
          /\ current[1].plan.segment = trace[i].p
          /\ current[1].plan.next # None => planCalls[current[1].plan.next[1]] = 0
C3_Witness ==
    /\ ~never_recover
    /\ Returned
    /\ Events("exec", "Failure") # {}
    /\ Events("exec", "Success") # {}
    /\ LastEv.n = 1
    /\ returned = << Abort >>

\* C4: a runner is created only right after its plan was planned and the
\* whole remaining chain expanded; when plan or expansion fails the action
\* is returned with no runner for that plan and current None.
C4_NoSilentCommitment ==
    /\ \A i \in 1..Len(trace) :
          trace[i].e = "run" =>
              /\ i >= 3
              /\ trace[i-2].e = "plan" /\ trace[i-2].out = "Ok" /\ trace[i-2].p = trace[i].p
              /\ trace[i-1].e = "expand" /\ trace[i-1].out = "Ok" /\ trace[i-1].p = trace[i].p
    /\ current # None => current[1].plan.segment \in expandedOk
    /\ ErrorEnded =>
          /\ current = None
          /\ \A i \in 1..Len(trace) : trace[i].e \in {"run", "exec"} => trace[i].p < arg
C4_Witness ==
    /\ ErrorEnded
    /\ trace[Len(trace) - 1].e = "expand" /\ trace[Len(trace) - 1].n = 2
    /\ current = None
    /\ Events("run", "-") = {}

\* C5 as stated: no call of execute_old panics, calls after Abort, RootCall
\* or Return included.
C5_NeverPanics == pc # "panic"
\* C5 amended: a call panics only when execute_old is called again after the
\* route ended (it returned Return, or the Abort or RootCall of a planning
\* error), and then on the unwrap of the drained planner slot; every other
\* call, calls after the Abort of a runner Failure included, returns one Action.
C5_PanicsOnlyWhenResumed ==
    /\ pc = "panic" =>
          /\ resumed
          /\ trace = << Ev("panic", 0, "planner.take().unwrap()", "-", 0) >>
    /\ Returned => Len(returned) = 1
    /\ (pc = "idle" /\ ended = "-") => (planner # None \/ current # None)
C5_Witness ==
    /\ Returned
    /\ ~resumed
    /\ tick >= 3
    /\ Events("exec", "Failure") # {}
    /\ current[1].runner.runs >= 2

\* C6: Success of the runner of a plan without next planner makes the call
\* return Return, and no command is yielded in that call.
C6_SuccessWithoutNextReturns ==
    \A i \in Events("exec", "Success") :
        trace[i].n = 0 =>
            /\ i = Len(trace)
            /\ pc = "idle"
            /\ returned = << Return >>
            /\ Events("exec", "Yield") = {}
            /\ current = None
C6_Witness ==
    /\ Returned
    /\ Cardinality(Events("exec", "Success")) >= 2
    /\ LastEv.e = "exec" /\ LastEv.n = 0
    /\ returned = << Return >>

\* C7: after Success with a next planner, that planner is planned next, with
\* the context of the current tick; a plan that commits gets a fresh runner,
\* which is run before the call returns.
C7_NextPlannedNow ==
    /\ \A i \in Events("exec", "Success") :
          trace[i].n = 1 =>
              IF i = Len(trace)
              THEN pc = "advance" /\ arg = trace[i].p + 1 /\ current = None
              ELSE /\ trace[i+1].e = "plan"
                   /\ trace[i+1].p = trace[i].p + 1
                   /\ trace[i+1].n = tick
    /\ \A i \in Events("expand", "Ok") :
          i < Len(trace) /\ trace[i+1].e = "run" /\ trace[i+1].p = trace[i].p
    /\ \A i \in Events("run", "-") :
          IF i = Len(trace)
          THEN /\ pc \in {"draw", "go"}
               /\ current # None
               /\ current[1].runner = [segment |-> trace[i].p, runs |-> 0]
               /\ current[1].plan.segment = trace[i].p
               /\ current[1].plan.ctx = tick
          ELSE \/ trace[i+1].e = "exec" /\ trace[i+1].p = trace[i].p
               \/ trace[i+1].e = "draw" /\ i = 3
C7_Witness ==
    /\ Returned
    /\ tick >= 2
    /\ Len(trace) = 6
    /\ trace[1].e = "draw"
    /\ trace[2].e = "exec" /\ trace[2].out = "Success" /\ trace[2].n = 1
    /\ trace[3].e = "plan" /\ trace[3].n = tick
    /\ trace[5].e = "run"
    /\ trace[6].e = "exec" /\ trace[6].p = trace[2].p + 1

\* C8: the planner slot is Some only while nothing was ever planned; the
\* initial planner is taken once and planned exactly once.
C8_PlannerDrainedOnce ==
    /\ planner # None =>
          /\ planner = Some(1)
          /\ current = None
          /\ \A p \in 1..MaxChain : planCalls[p] = 0
    /\ planCalls[1] <= 1
    /\ planner = None =>
          \/ planCalls[1] = 1 /\ firstPlanTick > 0
          \/ pc = "advance" /\ caller = "execute_old" /\ arg = 1 /\ planCalls[1] = 0
C8_Witness ==
    /\ Returned
    /\ planner = None
    /\ tick >= 2
    /\ firstPlanTick = 2
    /\ planCalls[1] = 1

\* C9: a call returns one Action and runners yield at most one command in
\* it, also when several segments succeed within the call.
C9_OneCommandPerTick ==
    /\ Len(returned) <= 1
    /\ Returned => Len(returned) = 1
    /\ Cardinality(Events("exec", "Yield")) <= 1
    /\ \A i \in Events("exec", "Yield") :
          i = Len(trace) /\ pc = "idle" /\ returned = << Yield(trace[i].arg) >>
C9_Witness ==
    /\ Returned
    /\ Cardinality(Events("exec", "Success")) >= 2
    /\ returned = << Yield("input_b") >>

\* the events of the call that do not come from drawing: the outcomes of the
\* same-ball-trajectory rule, the planners, the expansions and the runners
ControlEvents == SelectSeq(trace, LAMBDA ev : ev.e # "draw")
\* the action those outcomes determine
ActionFor(ctl, nr) ==
    IF ctl = << >>
    THEN [kind |-> "none", arg |-> "-"]
    ELSE LET last == ctl[Len(ctl)]
         IN CASE last.e = "sbt" -> Abort
              [] last.e = "recover" ->
                    (IF last.out = "Some" /\ ~nr THEN RootCall(last.arg) ELSE Abort)
              [] last.e = "exec" /\ last.out = "Yield" -> Yield(last.arg)
              [] last.e = "exec" /\ last.out = "Failure" -> Abort
              [] last.e = "exec" /\ last.out = "Success" /\ last.n = 0 -> Return
              [] OTHER -> [kind |-> "none", arg |-> "-"]

\* C20: the Action a call of execute returns is a function of the outcomes
\* of the planners, expansions and runners of that call alone: it is the
\* same whether the debug sink drew the provisional expansion or dropped it,
\* so two runs that differ only in the sink return the same actions.
C20_ActionIgnoresSink ==
    Returned => returned = << ActionFor(ControlEvents, never_recover) >>
C20_Witness ==
    /\ Returned
    /\ tick >= 2
    /\ \E i \in 1..Len(trace) : trace[i].e = "draw" /\ trace[i].out = "dropped"
    /\ \E c \in Commands : returned = << Yield(c) >>

\* C21: the draw step leaves the committed plan, its runner, the stored
\* expansion tail, the planner slot and never_recover as they were, and the
\* segments it draws are those the unchanged current plan determines, so
\* that building the expansion again in the state it leaves gives the same
\* segments.
C21_DrawFrame ==
    [][(pc = "draw" /\ current # None) =>
          /\ current' = current
          /\ planner' = planner
          /\ never_recover' = never_recover
          /\ same_ball_trajectory' = same_ball_trajectory
          /\ returned' = returned
          /\ Len(trace') = Len(trace) + 1
          /\ trace'[Len(trace')].e = "draw"
          /\ trace'[Len(trace')].p = current[1].plan.segment
          /\ trace'[Len(trace')].n = 1 + current[1].provisional_expansion_tail
          /\ ProvisionalPlanExpansion(current'[1]) = ProvisionalPlanExpansion(current[1])]_vars
C21_Witness ==
    /\ pc = "go"
    /\ tick >= 2
    /\ trace # << >>
    /\ trace[Len(trace)].e = "draw"
    /\ trace[Len(trace)].n >= 2
    /\ current # None
    /\ current[1].runner.runs >= 1

\* a call of execute_old takes its steps: the planners and runners it calls
\* return
CallStep == (Advance \/ Draw \/ Go) /\ UNCHANGED << stVars, fnVars >>
SpecTerminating == Init /\ [][Next]_vars /\ WF_vars(CallStep)

\* C29: a call of execute_old terminates, and the recursion depth of go is
\* at most one more than the number of segments whose runner reported
\* Success on that tick (and never more than the length of the chain).
C29_GoTerminates ==
    /\ [](/\ depth <= Cardinality(Events("exec", "Success")) + 1
          /\ depth <= MaxChain)
    /\ (pc \in {"advance", "draw", "go"}) ~> (pc \in {"idle", "panic"})
C29_Witness ==
    /\ pc = "idle"
    /\ depth = 3
    /\ Cardinality(Events("exec", "Success")) = 2
    /\ Len(returned) = 1
    /\ returned[1].kind = "Yield"

\* C30: whenever advance is entered `current` is None, so its assert holds,
\* and whenever draw or go is entered `current` is Some, so their unwraps
\* succeed; no call ends in a panic of one of the three.  This holds on every
\* tick, those of a behaviour executed again after it ended included.
C30_AssertionsHold ==
    /\ pc = "advance" => current = None
    /\ pc \in {"draw", "go"} => current # None
    /\ pc = "panic" =>
          trace[Len(trace)].out \notin {"assert!(self.current.is_none())",
                                        "draw: self.current.as_ref().unwrap()",
                                        "go: self.current.as_mut().unwrap()"}
C30_Witness ==
    /\ pc = "advance"
    /\ caller = "go"
    /\ current = None
    /\ tick >= 2
    /\ ~resumed
    /\ Events("draw", "drawn") # {}
    /\ Events("exec", "Success") # {}

\* ------------------------------------------------------ behaviour stack

\* behaviours that can be on the stack: WallHit, the two behaviours its jump
\* step hands off to, and a calling parent
Behaviors == {"WallHit", "Yielder", "Chain", "Parent"}

\* PlayerInput, the fields WallHit sets
PlayerInput(throttle, steer, boost) ==
    [Throttle |-> throttle, Steer |-> steer, Boost |-> boost]

\* calculate_approach: aim a few uu behind the ball
target_offset == -10
\* offsets a trial of calculate_approach can end at
Offsets == {-20, -10, 0}
\* target and jump times, in units in which both are whole
Times == 0..1
\* steer angles of the flattened path, in half radians
SteerAngles == {-2, 0, 1}

\* calculate_approach: Jump once the remaining drive time is negative, else
\* the throttle ladder over the coast, throttle and blitz trials
calculate_approach_jump_inclusive(target_time, jump_time, coast_offset, throttle_offset, blitz_offset) ==
    LET drive_time == target_time - jump_time IN
    IF drive_time <= 0
    THEN [step |-> "Jump", throttle |-> 0, boost |-> FALSE]
    ELSE IF coast_offset > target_offset
         THEN [step |-> "Drive", throttle |-> 0, boost |-> FALSE]
         ELSE IF throttle_offset > target_offset
              THEN [step |-> "Drive", throttle |-> 0, boost |-> FALSE]
              ELSE IF blitz_offset > target_offset
                   THEN [step |-> "Drive", throttle |-> 1, boost |-> FALSE]
                   ELSE [step |-> "Drive", throttle |-> 1, boost |-> TRUE]
calculate_approach(target_time, jump_time, coast_offset, throttle_offset, blitz_offset) ==
    LET drive_time == target_time - jump_time IN
    IF drive_time < 0
    THEN [step |-> "Jump", throttle |-> 0, boost |-> FALSE]
    ELSE IF coast_offset > target_offset
         THEN [step |-> "Drive", throttle |-> 0, boost |-> FALSE]
         ELSE IF throttle_offset > target_offset
              THEN [step |-> "Drive", throttle |-> 0, boost |-> FALSE]
              ELSE IF blitz_offset > target_offset
                   THEN [step |-> "Drive", throttle |-> 1, boost |-> FALSE]
                   ELSE [step |-> "Drive", throttle |-> 1, boost |-> TRUE]

\* drive: steer is twice the angle (half radians here), clamped to [-1, 1];
\* boost only below CAR_ALMOST_MAX_SPEED
Max(a, b) == IF a >= b THEN a ELSE b
Min(a, b) == IF a <= b THEN a ELSE b
drive_unclamped(belowAlmostMaxSpeed, steer, throttle, boost) ==
    Yield(PlayerInput(throttle, steer, boost /\ belowAlmostMaxSpeed))
drive(belowAlmostMaxSpeed, steer, throttle, boost) ==
    Yield(PlayerInput(throttle, Min(Max(steer, -1), 1), boost /\ belowAlmostMaxSpeed))

\* jump: chip the ball off the wall with a throttle-only Yielder when the
\* intercept hugs the surface (intercept_distance_from_surface below
\* BALL_RADIUS + 25), else JumpAndTurn then Dodge; both by tail call
jump_calls_chain(hugsSurface) ==
    IF hugsSurface THEN TailCall("Yielder") ELSE Call("Chain")
jump(hugsSurface) ==
    IF hugsSurface THEN TailCall("Yielder") ELSE TailCall("Chain")

\* WallHit::execute_old for the results of its checks and helpers
WallHit_execute_old(onGround, hasIntercept, flatOk, approach, belowAlmostMaxSpeed, steer, hugsSurface) ==
    IF ~onGround THEN [step |-> "Abort", action |-> Abort]
    ELSE IF ~hasIntercept THEN [step |-> "Abort", action |-> Abort]
    ELSE IF ~flatOk THEN [step |-> "Abort", action |-> Abort]
    ELSE IF approach.step = "Drive"
         THEN [step |-> "Drive",
               action |-> drive(belowAlmostMaxSpeed, steer, approach.throttle, approach.boost)]
         ELSE [step |-> "Jump", action |-> jump(hugsSurface)]

\* the stack after the active behaviour returned `action`
Apply(stk, action) ==
    CASE action.kind = "Yield" -> stk
      [] action.kind = "Call" -> Append(stk, action.arg)
      [] action.kind = "Return" -> SubSeq(stk, 1, Len(stk) - 1)
      [] action.kind = "Abort" -> SubSeq(stk, 1, Len(stk) - 1)
      [] action.kind = "RootCall" -> << action.arg >>
      [] action.kind = "TailCall" -> [stk EXCEPT ![Len(stk)] = action.arg]

\* actions of the behaviours whose code is not modelled
OtherActions ==
    {Yield(PlayerInput(1, 0, FALSE)), Return, Abort}
    \cup {Call(b) : b \in Behaviors}
    \cup {TailCall(b) : b \in Behaviors}
    \cup {RootCall(b) : b \in Behaviors}

\* FollowRoute, parked while the stack is explored
FollowRouteParked ==
    /\ planner = Some(1)
    /\ current = None
    /\ never_recover = FALSE
    /\ same_ball_trajectory = FALSE
    /\ pc = "idle"
    /\ arg = 0
    /\ caller = "-"
    /\ depth = 0
    /\ tick = 0
    /\ returned = << >>
    /\ trace = << >>
    /\ planCalls = [p \in 1..MaxChain |-> 0]
    /\ firstPlanTick = 0
    /\ expandedOk = {}
    /\ ended = "-"
    /\ resumed = FALSE

InitStack ==
    /\ FollowRouteParked
    /\ FunctionsParked
    /\ stack \in {<< b >> : b \in Behaviors}
    /\ steps = 0
    /\ tailRun = 0
    /\ tailBase = 0
    /\ lastStep = "-"
    /\ lastAct = Return

\* one engine step: the stack takes the transition of the action, and the
\* run of consecutive TailCalls is counted
Step(step, action) ==
    /\ steps' = steps + 1
    /\ stack' = Apply(stack, action)
    /\ lastStep' = step
    /\ lastAct' = action
    /\ tailRun' = IF action.kind = "TailCall" THEN tailRun + 1 ELSE 0
    /\ tailBase' = IF action.kind = "TailCall"
                   THEN (IF tailRun = 0 THEN Len(stack) ELSE tailBase)
                   ELSE 0

\* the active behaviour is WallHit
ExecuteWallHit ==
    /\ steps < MaxSteps
    /\ stack # << >>
    /\ stack[Len(stack)] = "WallHit"
    /\ \E onGround, hasIntercept, flatOk, below, hugs \in BOOLEAN :
       \E tt, jt \in Times : \E co, th, bl \in Offsets : \E st \in SteerAngles :
         LET r == WallHit_execute_old(onGround, hasIntercept, flatOk,
                                      calculate_approach(tt, jt, co, th, bl),
                                      below, st, hugs)
         IN Step(r.step, r.action)

\* the active behaviour is another one
ExecuteOther ==
    /\ steps < MaxSteps
    /\ stack # << >>
    /\ stack[Len(stack)] # "WallHit"
    /\ \E a \in OtherActions :
         /\ a.kind = "Call" => Len(stack) < MaxDepth
         /\ Step("Other", a)

NextStack ==
    \/ ExecuteWallHit /\ UNCHANGED << frVars, fnVars >>
    \/ ExecuteOther /\ UNCHANGED << frVars, fnVars >>

SpecStack == InitStack /\ [][NextStack]_vars

\* C10: a run of consecutive TailCalls leaves the stack no deeper than it was
\* before the first of them, and WallHit's jump step returns a TailCall in
\* both of its branches.
C10_TailCallsKeepDepth ==
    /\ tailRun > 0 => Len(stack) <= tailBase
    /\ lastStep = "Jump" =>
          /\ lastAct \in {TailCall("Yielder"), TailCall("Chain")}
          /\ tailRun > 0
C10_Witness ==
    /\ tailRun >= 3
    /\ lastStep = "Jump"
    /\ lastAct = TailCall("Chain")
    /\ Len(stack) = 2
    /\ tailBase = 2

(***************************************************************************)
(* estimate_intercept_car_ball (brain/src/predict/intercept.rs).           *)
(* Times are counted in simulation steps: a time of k stands for k * DT    *)
(* seconds, DT = 1/60 s.  The ball simulation (chip) and the 1-D car       *)
(* simulation (simulate::Car1D) are not in the sources: each step draws    *)
(* the ball's height, its distance from the car's start location and the   *)
(* distance the car gains.                                                 *)
(***************************************************************************)

\* for _ in 0..200
SEARCH_STEPS == 200
\* const RADII: f32 = 240.0
RADII == 240
\* if sim_ball.loc().z > 100.0 { continue; }
BALL_Z_MAX == 100

BallHeights == {100, 110}
BallDistances == {240, 1000, 5000}
CarGains == {0, 20}

\* FollowRoute and the behaviour stack, parked while a function is explored
ProgramParked == FollowRouteParked /\ StackParked
\* the debug sink and the single calls, parked likewise
OthersParked == eeg = [pc |-> "parked"] /\ pf = [pc |-> "parked"]
otVars == << eeg, pf >>

\* the loop runs while the range 0..200 has an iteration left
LoopContinues_inclusive(k) == k <= SEARCH_STEPS
LoopContinues(k) == k < SEARCH_STEPS

\* the body of the loop after the simulations have stepped: TRUE when it
\* breaks
Breaks(z, dist, traveled) ==
    IF z > BALL_Z_MAX
    THEN FALSE
    ELSE LET target_traveled == dist - RADII
         IN traveled >= target_traveled

\* the InterceptResult built after the loop
InterceptResult(t, z, dist, traveled) ==
    [time |-> t, ball_z |-> z, ball_dist |-> dist, car_traveled |-> traveled]

\* the height predicate and the reach condition of a simulated step
Feasible(z, dist, traveled) == z <= 100 /\ traveled >= dist - 240

InitIntercept ==
    /\ ProgramParked
    /\ OthersParked
    /\ gp = [pc |-> "parked"]
    /\ tn = [pc |-> "parked"]
    /\ \E z \in BallHeights, d \in BallDistances :
         ic = [pc |-> "loop", k |-> 0, t |-> 0, ball_z |-> z, ball_dist |-> d,
               traveled |-> 0, broke |-> FALSE, firstFeasible |-> 0,
               result |-> None]

\* one iteration of the loop
InterceptStep ==
    /\ ic.pc = "loop"
    /\ ~ic.broke
    /\ LoopContinues(ic.k)
    /\ \E z \in BallHeights, d \in BallDistances, g \in CarGains :
         LET tr == ic.traveled + g
         IN ic' = [ic EXCEPT !.k = @ + 1,
                             !.t = @ + 1,
                             !.ball_z = z,
                             !.ball_dist = d,
                             !.traveled = tr,
                             !.broke = Breaks(z, d, tr),
                             !.firstFeasible =
                                 IF @ = 0 /\ Feasible(z, d, tr) THEN ic.k + 1 ELSE @]
    /\ UNCHANGED << frVars, stVars, gp, tn, otVars >>

\* the loop has ended, by break or by exhaustion: the result is built from
\* the simulations as they stand
InterceptReturn ==
    /\ ic.pc = "loop"
    /\ ic.broke \/ ~LoopContinues(ic.k)
    /\ ic' = [ic EXCEPT !.pc = "done",
                        !.result = Some(InterceptResult(ic.t, ic.ball_z, ic.ball_dist,
                                                        ic.traveled))]
    /\ UNCHANGED << frVars, stVars, gp, tn, otVars >>

NextIntercept ==
    \/ InterceptStep
    \/ InterceptReturn

SpecIntercept == InitIntercept /\ [][NextIntercept]_vars

\* C11 (as stated): whenever the search returns a result, the simulated ball
\* at the result's time is not above 100 and the 1-D car has travelled at
\* least the ball's distance less the contact radius.
C11_ResultFeasible ==
    ic.pc = "done" =>
        /\ ic.result[1].ball_z <= 100
        /\ ic.result[1].car_traveled >= ic.result[1].ball_dist - 240

\* C12 (as stated): the result is the first simulated step at which the
\* height predicate and the reach condition both hold; no earlier step
\* satisfies both.
C12_EarliestFeasible ==
    ic.pc = "done" =>
        /\ ic.firstFeasible >= 1
        /\ ic.result[1].time = ic.firstFeasible

\* C13: the search runs at most 200 steps of 1/60 s and then returns; the
\* returned time is k/60 for the number k of steps run, 1 <= k <= 200.
C13_BoundedHorizon ==
    /\ ic.pc # "parked" => (ic.k <= 200 /\ ic.t = ic.k)
    /\ ic.pc = "loop" /\ ic.k = 200 => ~ENABLED InterceptStep
    /\ ic.pc = "done" =>
          /\ ic.result[1].time = ic.k
          /\ 1 <= ic.result[1].time
          /\ ic.result[1].time <= 200
C13_Witness ==
    /\ ic.pc = "done"
    /\ ic.result[1].time = 200
    /\ ~ic.broke

(***************************************************************************)
(* GroundIntercept and GroundInterceptStraight                             *)
(* (brain/src/routing/plan/ground_intercept.rs).  The guards               *)
(* NotOnFlatGround and IsSkidding read the start state of the planning     *)
(* context; naive_ground_intercept and the planners the two delegate to    *)
(* (TurnPlanner, GroundStraightPlanner) are not in the sources: the guess  *)
(* and the delegate's result are inputs.                                   *)
(***************************************************************************)

\* Vector3::to_2d
to_2d(v) == << v[1], v[2] >>

CarLocs == {<< 100, 200, 17 >>, << -300, 50, 17 >>}
BallLocs == {<< 500, 600, 93 >>, << -900, 0, 120 >>}
GuessTimes == {1, 2}
\* what naive_ground_intercept returns
Guesses ==
    {None} \cup {Some([car_loc |-> c, ball_loc |-> b, time |-> t]) :
                    c \in CarLocs, b \in BallLocs, t \in GuessTimes}
\* the start state of the planning context, as the guards see it
StartStates == [on_flat_ground : BOOLEAN, skidding : BOOLEAN]
\* what the planner delegated to returns
DelegateResults == {"Ok", "Err"}

PlanErr(error, target, evaluated) ==
    [ok |-> FALSE, error |-> error, recover_target_loc |-> target, segment |-> "-",
     target_loc |-> None, evaluated |-> evaluated]
PlanOf(delegate, segment, target, evaluated) ==
    IF delegate = "Ok"
    THEN [ok |-> TRUE, error |-> "-", recover_target_loc |-> None, segment |-> segment,
          target_loc |-> Some(target), evaluated |-> evaluated]
    ELSE PlanErr("DelegateError", None, evaluated)

\* GroundIntercept::plan
GroundIntercept_plan_search_first(start, guess, delegate) ==
    IF guess = None
    THEN PlanErr("UnknownIntercept", None, << "naive_ground_intercept" >>)
    ELSE IF ~start.on_flat_ground
    THEN PlanErr("MustBeOnFlatGround", None,
                 << "naive_ground_intercept", "NotOnFlatGround" >>)
    ELSE IF start.skidding
    THEN PlanErr("MustNotBeSkidding", Some(to_2d(guess[1].car_loc)),
                 << "naive_ground_intercept", "NotOnFlatGround", "IsSkidding" >>)
    ELSE PlanOf(delegate, "Turn", to_2d(guess[1].ball_loc),
                << "naive_ground_intercept", "NotOnFlatGround", "IsSkidding",
                   "TurnPlanner" >>)
GroundIntercept_plan(start, guess, delegate) ==
    IF ~start.on_flat_ground
    THEN PlanErr("MustBeOnFlatGround", None, << "NotOnFlatGround" >>)
    ELSE IF guess = None
    THEN PlanErr("UnknownIntercept", None,
                 << "NotOnFlatGround", "naive_ground_intercept" >>)
    ELSE IF start.skidding
    THEN PlanErr("MustNotBeSkidding", Some(to_2d(guess[1].car_loc)),
                 << "NotOnFlatGround", "naive_ground_intercept", "IsSkidding" >>)
    ELSE PlanOf(delegate, "Turn", to_2d(guess[1].ball_loc),
                << "NotOnFlatGround", "naive_ground_intercept", "IsSkidding",
                   "TurnPlanner" >>)

\* GroundInterceptStraight::plan
GroundInterceptStraight_plan_no_skid_guard(start, guess, delegate) ==
    IF ~start.on_flat_ground
    THEN PlanErr("MustBeOnFlatGround", None, << "NotOnFlatGround" >>)
    ELSE IF guess = None
    THEN PlanErr("UnknownIntercept", None,
                 << "NotOnFlatGround", "naive_ground_intercept" >>)
    ELSE PlanOf(delegate, "Straight", to_2d(guess[1].car_loc),
                << "NotOnFlatGround", "naive_ground_intercept",
                   "GroundStraightPlanner" >>)
GroundInterceptStraight_plan(start, guess, delegate) ==
    IF ~start.on_flat_ground
    THEN PlanErr("MustBeOnFlatGround", None, << "NotOnFlatGround" >>)
    ELSE IF guess = None
    THEN PlanErr("UnknownIntercept", None,
                 << "NotOnFlatGround", "naive_ground_intercept" >>)
    ELSE IF start.skidding
    THEN PlanErr("MustNotBeSkidding", Some(to_2d(guess[1].car_loc)),
                 << "NotOnFlatGround", "naive_ground_intercept", "IsSkidding" >>)
    ELSE PlanOf(delegate, "Straight", to_2d(guess[1].car_loc),
                << "NotOnFlatGround", "naive_ground_intercept", "IsSkidding",
                   "GroundStraightPlanner" >>)

InitGround ==
    /\ ProgramParked
    /\ OthersParked
    /\ ic = [pc |-> "parked"]
    /\ tn = [pc |-> "parked"]
    /\ \E st \in StartStates, g \in Guesses, d \in DelegateResults :
         gp = [pc |-> "plan", start |-> st, guess |-> g, delegate |-> d,
               planner |-> "-", result |-> None]

PlanGroundIntercept ==
    /\ gp.pc = "plan"
    /\ gp' = [gp EXCEPT !.pc = "done",
                        !.planner = "GroundIntercept",
                        !.result = Some(GroundIntercept_plan(gp.start, gp.guess,
                                                             gp.delegate))]
    /\ UNCHANGED << frVars, stVars, ic, tn, otVars >>

PlanGroundInterceptStraight ==
    /\ gp.pc = "plan"
    /\ gp' = [gp EXCEPT !.pc = "done",
                        !.planner = "GroundInterceptStraight",
                        !.result = Some(GroundInterceptStraight_plan(gp.start, gp.guess,
                                                                     gp.delegate))]
    /\ UNCHANGED << frVars, stVars, ic, tn, otVars >>

NextGround ==
    \/ PlanGroundIntercept
    \/ PlanGroundInterceptStraight

SpecGround == InitGround /\ [][NextGround]_vars

\* C14 (as stated): whenever the start state is skidding, the planner returns
\* MustNotBeSkidding carrying a recovery target location.
C14_SkiddingAlwaysRedirects ==
    gp.pc = "done" /\ gp.start.skidding =>
        /\ gp.result[1].error = "MustNotBeSkidding"
        /\ gp.result[1].recover_target_loc # None

\* C14 (amended): whenever the start state is skidding, neither planner
\* returns a plan; the error is MustNotBeSkidding with a recovery target
\* location when the start is on flat ground and an intercept guess was
\* found, MustBeOnFlatGround or UnknownIntercept otherwise.
C14_SkiddingNeverPlans ==
    gp.pc = "done" /\ gp.start.skidding =>
        /\ ~gp.result[1].ok
        /\ gp.result[1].segment = "-"
        /\ IF gp.start.on_flat_ground /\ gp.guess # None
           THEN /\ gp.result[1].error = "MustNotBeSkidding"
                /\ gp.result[1].recover_target_loc # None
           ELSE /\ gp.result[1].error \in {"MustBeOnFlatGround", "UnknownIntercept"}
                /\ gp.result[1].recover_target_loc = None
C14_Witness ==
    /\ gp.pc = "done"
    /\ gp.planner = "GroundInterceptStraight"
    /\ gp.start.skidding
    /\ gp.result[1].error = "MustNotBeSkidding"

\* C15: not on flat ground yields MustBeOnFlatGround before any intercept
\* search; otherwise no intercept yields UnknownIntercept before skidding is
\* checked; then skidding yields MustNotBeSkidding whose recover_target_loc
\* is the 2-D car location of the guess; a plan is returned only when all
\* three guards pass.
C15_GuardOrder ==
    gp.pc = "done" =>
        LET r == gp.result[1]
            searched == \E i \in 1..Len(r.evaluated) :
                            r.evaluated[i] = "naive_ground_intercept"
            skidChecked == \E i \in 1..Len(r.evaluated) : r.evaluated[i] = "IsSkidding"
        IN
        /\ ~gp.start.on_flat_ground =>
              r.error = "MustBeOnFlatGround" /\ ~searched /\ ~skidChecked
        /\ gp.start.on_flat_ground /\ gp.guess = None =>
              r.error = "UnknownIntercept" /\ searched /\ ~skidChecked
        /\ gp.start.on_flat_ground /\ gp.guess # None /\ gp.start.skidding =>
              /\ r.error = "MustNotBeSkidding"
              /\ r.recover_target_loc =
                    << << gp.guess[1].car_loc[1], gp.guess[1].car_loc[2] >> >>
        /\ r.ok => gp.start.on_flat_ground /\ gp.guess # None /\ ~gp.start.skidding
        /\ r.error = "MustNotBeSkidding" => skidChecked /\ searched
C15_Witness ==
    /\ gp.pc = "done"
    /\ gp.planner = "GroundIntercept"
    /\ gp.result[1].error = "MustNotBeSkidding"
    /\ gp.result[1].recover_target_loc = << << -300, 50 >> >>

(***************************************************************************)
(* Turn and Turner (brain/src/routing/segments/turn.rs).                   *)
(* Angles are whole degrees in (-180, 180].  A location is given relative  *)
(* to the turn's center: th is the polar angle of (loc - center) and r its *)
(* length, so that (a - center).angle_to(b - center) is the normalised     *)
(* difference of the polar angles.  rot is the angle of the forward axis.  *)
(* On each tick the car's physics are inputs: whether it is on flat        *)
(* ground, its location, its forward axis, and the direction `bearing` of  *)
(* (plan.target_loc - me_loc).                                             *)
(***************************************************************************)
MaxTurnTicks == 2

\* 3.0_f32.to_radians()
EXIT_TOLERANCE == 3
\* PI * (11.0 / 6.0)
DEGENERATE_SWEEP == 330

Abs(x) == IF x < 0 THEN -x ELSE x
\* f32::signum
Signum(x) == IF x < 0 THEN -1 ELSE 1
\* an angle brought into (-180, 180], the range of angle_to
NormDeg(a) == LET m == a % 360 IN IF m > 180 THEN m - 360 ELSE m
\* u.angle_to(v) for vectors of polar angles a and b
angle_to(a, b) == NormDeg(b - a)
\* UnitComplex::new(sweep) * v, for a vector of polar angle a
Rotate(sweep, a) == NormDeg(a + sweep)

StartThs == {0, 100}
StartRots == {90, -90}
ProjectedThs == {90, -90, 2, 180}
MeThs == {0, 45, 88, 90, -20, -90, 180}
MeRots == {0, 90, 178, 180}
MeBearings == {0, 3, 92, 180}
MeRadii == {1000, 1040}

\* the CarState a planning context starts from
StartCarStates ==
    {[th |-> th, r |-> 1000, rot |-> rot, vel_dir |-> rot, speed |-> 1000, boost |-> 33] :
        th \in StartThs, rot \in StartRots}
\* ctx.me(), as the Turner reads it
MeStates ==
    [on_flat_ground : BOOLEAN, th : MeThs, r : MeRadii, rot : MeRots,
     bearing : MeBearings]

\* Turn::new
Turn_new(start, projected_end_th) ==
    LET start2d == [start EXCEPT !.boost = 0]
        sweep == angle_to(start2d.th, projected_end_th)
    IN [start |-> start2d, sweep |-> sweep]

\* Turn::sweep_to
sweep_to_unwrapped(plan, end_th) == angle_to(plan.start.th, end_th)
sweep_to(plan, end_th) ==
    LET result == angle_to(plan.start.th, end_th)
    IN IF result < 0 /\ plan.sweep >= 0
       THEN result + 360
       ELSE IF result > 0 /\ plan.sweep < 0
       THEN result - 360
       ELSE result

\* Turn::start
Turn_start(plan) == plan.start

\* Turn::end
Turn_end_keeps_velocity(plan) ==
    [th |-> Rotate(plan.sweep, plan.start.th),
     r |-> plan.start.r,
     rot |-> Rotate(plan.sweep, plan.start.rot),
     vel_dir |-> plan.start.vel_dir,
     speed |-> plan.start.speed,
     boost |-> plan.start.boost]
Turn_end(plan) ==
    [th |-> Rotate(plan.sweep, plan.start.th),
     r |-> plan.start.r,
     rot |-> Rotate(plan.sweep, plan.start.rot),
     vel_dir |-> Rotate(plan.sweep, plan.start.vel_dir),
     speed |-> plan.start.speed,
     boost |-> plan.start.boost]

TurnAction(out, steer, drew) ==
    [out |-> out, throttle |-> IF out = "Yield" THEN 1 ELSE 0, steer |-> steer,
     drew |-> drew]

\* Turner::execute_old
Turner_execute_old_yaw_inclusive(plan, me) ==
    IF ~me.on_flat_ground
    THEN TurnAction("Failure", 0, FALSE)
    ELSE LET yaw_diff == angle_to(me.rot, me.bearing)
         IN IF Abs(yaw_diff) <= EXIT_TOLERANCE
            THEN TurnAction("Success", 0, FALSE)
            ELSE LET swept == sweep_to(plan, me.th)
                     degenerate_sweep == Abs(swept) >= DEGENERATE_SWEEP
                 IN IF ~degenerate_sweep /\ Abs(swept) >= Abs(plan.sweep) - EXIT_TOLERANCE
                    THEN TurnAction("Success", 0, degenerate_sweep)
                    ELSE TurnAction("Yield", Signum(yaw_diff), degenerate_sweep)
Turner_execute_old_flat_ground_last(plan, me) ==
    LET yaw_diff == angle_to(me.rot, me.bearing)
    IN IF Abs(yaw_diff) < EXIT_TOLERANCE
       THEN TurnAction("Success", 0, FALSE)
       ELSE LET swept == sweep_to(plan, me.th)
                degenerate_sweep == Abs(swept) >= DEGENERATE_SWEEP
            IN IF ~degenerate_sweep /\ Abs(swept) >= Abs(plan.sweep) - EXIT_TOLERANCE
               THEN TurnAction("Success", 0, degenerate_sweep)
               ELSE IF ~me.on_flat_ground
               THEN TurnAction("Failure", 0, degenerate_sweep)
               ELSE TurnAction("Yield", Signum(yaw_diff), degenerate_sweep)
Turner_execute_old_sweep_unguarded(plan, me) ==
    IF ~me.on_flat_ground
    THEN TurnAction("Failure", 0, FALSE)
    ELSE LET yaw_diff == angle_to(me.rot, me.bearing)
         IN IF Abs(yaw_diff) < EXIT_TOLERANCE
            THEN TurnAction("Success", 0, FALSE)
            ELSE LET swept == sweep_to(plan, me.th)
                     degenerate_sweep == Abs(swept) >= DEGENERATE_SWEEP
                 IN IF Abs(swept) >= Abs(plan.sweep) - EXIT_TOLERANCE
                    THEN TurnAction("Success", 0, degenerate_sweep)
                    ELSE TurnAction("Yield", Signum(yaw_diff), degenerate_sweep)
Turner_execute_old(plan, me) ==
    IF ~me.on_flat_ground
    THEN TurnAction("Failure", 0, FALSE)
    ELSE LET yaw_diff == angle_to(me.rot, me.bearing)
         IN IF Abs(yaw_diff) < EXIT_TOLERANCE
            THEN TurnAction("Success", 0, FALSE)
            ELSE LET swept == sweep_to(plan, me.th)
                     degenerate_sweep == Abs(swept) >= DEGENERATE_SWEEP
                 IN IF ~degenerate_sweep /\ Abs(swept) >= Abs(plan.sweep) - EXIT_TOLERANCE
                    THEN TurnAction("Success", 0, degenerate_sweep)
                    ELSE TurnAction("Yield", Signum(yaw_diff), degenerate_sweep)

\* the start state of a segment planned from the planning context `start`:
\* Turn::new stores it and Turn::start returns it
PlannedStart(start) == Turn_start(Turn_new(start, start.th))

\* the state the next planner is provisionally planned against when the plan
\* is expanded: the end state of the segment before it
ProvisionalCtxStart(plan) == Turn_end(plan)

\* the state the next planner is planned against when FollowRoute::go
\* advances on Success: the car as it is on that tick
LiveCtxStart(me) ==
    [th |-> me.th, r |-> me.r, rot |-> me.rot, vel_dir |-> me.rot, speed |-> 1000,
     boost |-> 33]

InitTurn ==
    /\ ProgramParked
    /\ OthersParked
    /\ ic = [pc |-> "parked"]
    /\ gp = [pc |-> "parked"]
    /\ \E start \in StartCarStates, p \in ProjectedThs :
         LET plan == Turn_new(start, p)
         IN tn = [pc |-> "run", plan |-> plan, n |-> 0, me |-> None, act |-> None,
                  provisional_next |-> PlannedStart(ProvisionalCtxStart(plan)),
                  committed_next |-> None]

\* one tick of the Turner; on Success FollowRoute::go advances to the next
\* planner with the context of this tick
TurnerTick ==
    /\ tn.pc = "run"
    /\ tn.n < MaxTurnTicks
    /\ \E me \in MeStates :
         LET a == Turner_execute_old(tn.plan, me)
         IN tn' = [tn EXCEPT !.n = @ + 1,
                             !.me = Some(me),
                             !.act = Some(a),
                             !.pc = IF a.out = "Yield" THEN "run" ELSE "done",
                             !.committed_next =
                                 IF a.out = "Success"
                                 THEN Some(PlannedStart(LiveCtxStart(me)))
                                 ELSE None]
    /\ UNCHANGED << frVars, stVars, ic, gp, otVars >>

NextTurn == TurnerTick

SpecTurn == InitTurn /\ [][NextTurn]_vars

\* the Turner has been ticked
Ticked == tn.pc # "parked" /\ tn.n >= 1
\* the angle swept from the start of the turn to the car
Swept == sweep_to(tn.plan, tn.me[1].th)
\* the yaw error of the car to the direction of the turn's target location
YawErrorToTarget == NormDeg(tn.me[1].bearing - tn.me[1].rot)
\* the yaw error of the car to the heading of Turn.end()
YawErrorToEndHeading == NormDeg(Turn_end(tn.plan).rot - tn.me[1].rot)

C17_SuccessAtEndHeading ==
    Ticked /\ tn.act[1].out = "Success" => Abs(YawErrorToEndHeading) <= 3

\* C18: the Turner reports Failure exactly when the car is not on flat
\* ground, whatever the success conditions say; a degenerate sweep on flat
\* ground never produces Failure.
C18_FailureIffOffGround ==
    Ticked =>
        /\ tn.act[1].out = "Failure" <=> ~tn.me[1].on_flat_ground
        /\ tn.me[1].on_flat_ground /\ Abs(Swept) >= 330 => tn.act[1].out # "Failure"
C18_Witness ==
    /\ Ticked
    /\ tn.me[1].on_flat_ground
    /\ Abs(Swept) >= 330
    /\ tn.act[1].out = "Yield"
    /\ tn.act[1].drew

\* C31: sweep_to gives the angle travelled from the start point in the plan's
\* direction: within [0, 360) for a plan with sweep >= 0, within (-360, 0]
\* for a plan with sweep < 0, so its sign never opposes that of the sweep;
\* it is the angle from the start point to the car up to a full turn.
C31_SweepToRange ==
    Ticked =>
        /\ tn.plan.sweep >= 0 => (0 <= Swept /\ Swept < 360)
        /\ tn.plan.sweep < 0 => (-360 < Swept /\ Swept <= 0)
        /\ (Swept - (tn.me[1].th - tn.plan.start.th)) % 360 = 0
C31_Witness ==
    /\ Ticked
    /\ tn.plan.sweep < 0
    /\ tn.me[1].th - tn.plan.start.th = 90
    /\ Swept = -270
    /\ tn.me[1].on_flat_ground
    /\ tn.act[1].out = "Success"

\* C32 (as stated): on a tick with a degenerate sweep (330 degrees or more)
\* the Turner reports Success only if the yaw error is below 3 degrees and
\* otherwise yields full throttle with Steer the sign of the yaw error.
C32_DegenerateSuccessOrYield ==
    Ticked /\ Abs(Swept) >= 330 =>
        /\ tn.act[1].out = "Success" => Abs(YawErrorToTarget) < 3
        /\ tn.act[1].out # "Success" =>
              /\ tn.act[1].out = "Yield"
              /\ tn.act[1].throttle = 1
              /\ tn.act[1].steer = (IF YawErrorToTarget < 0 THEN -1 ELSE 1)

\* C32 (amended): on a tick on flat ground with a degenerate sweep the Turner
\* reports Success exactly when the yaw error is below 3 degrees, and
\* otherwise yields full throttle with Steer the sign of the yaw error; off
\* flat ground it reports Failure, degenerate sweep or not.
C32_DegenerateOnFlatGround ==
    Ticked /\ Abs(Swept) >= 330 =>
        /\ tn.me[1].on_flat_ground =>
              /\ tn.act[1].out = "Success" <=> Abs(YawErrorToTarget) < 3
              /\ tn.act[1].out # "Success" =>
                    /\ tn.act[1].out = "Yield"
                    /\ tn.act[1].throttle = 1
                    /\ tn.act[1].steer = (IF YawErrorToTarget < 0 THEN -1 ELSE 1)
        /\ ~tn.me[1].on_flat_ground => tn.act[1].out = "Failure"
C32_Witness ==
    /\ Ticked
    /\ tn.me[1].on_flat_ground
    /\ Abs(Swept) >= 330
    /\ Abs(Swept) >= Abs(tn.plan.sweep) - 3
    /\ Abs(YawErrorToTarget) >= 3
    /\ tn.act[1].out = "Yield"
    /\ tn.act[1].steer = -1

MaxShows == 3
MaxDrawables == 2

\* crossbeam_channel::unbounded(): a send never waits for the receiver
SendReady_rendezvous(chan, worker) == chan = << >> /\ worker = "recv"
SendReady(chan, worker) == TRUE

\* rx.recv() on an empty channel: None once every sender is dropped,
\* otherwise the worker waits
RecvEmpty(tx) == IF tx THEN "wait" ELSE "None"

\* the match on window.next() in the worker's loop
WindowNextMatch(event) == IF event = "Some" THEN "recv" ELSE "break"

\* EEG::new: the channel is created and the worker thread spawned
InitEEG ==
    /\ ProgramParked
    /\ ic = [pc |-> "parked"]
    /\ gp = [pc |-> "parked"]
    /\ tn = [pc |-> "parked"]
    /\ pf = [pc |-> "parked"]
    /\ eeg = [core |-> "running", tx |-> TRUE, draw_list |-> 0, chan |-> << >>,
              sent |-> 0, received |-> 0, worker |-> "init", spawned |-> 1]

\* EEG::draw
EegDraw ==
    /\ eeg.core = "running"
    /\ eeg.draw_list < MaxDrawables
    /\ eeg' = [eeg EXCEPT !.draw_list = @ + 1]
    /\ UNCHANGED << frVars, stVars, ic, gp, tn, pf >>

\* EEG::show: the draw list is taken and sent as one Draw message
EegShow ==
    /\ eeg.core = "running"
    /\ eeg.sent < MaxShows
    /\ SendReady(eeg.chan, eeg.worker)
    /\ eeg' = [eeg EXCEPT !.draw_list = 0,
                          !.chan = Append(@, [id |-> eeg.sent + 1, n |-> eeg.draw_list]),
                          !.sent = @ + 1]
    /\ UNCHANGED << frVars, stVars, ic, gp, tn, pf >>

\* Drop for EEG, first statement: the sender is dropped, closing the channel
EegDropTx ==
    /\ eeg.core = "running"
    /\ eeg' = [eeg EXCEPT !.tx = FALSE, !.core = "joining"]
    /\ UNCHANGED << frVars, stVars, ic, gp, tn, pf >>

\* Drop for EEG, second statement: join().unwrap() returns once the worker
\* has ended, and panics if the worker panicked
EegJoin ==
    /\ eeg.core = "joining"
    /\ eeg.worker \in {"exited", "panicked"}
    /\ eeg' = [eeg EXCEPT !.core = IF eeg.worker = "exited" THEN "dropped"
                                                            ELSE "drop_panicked"]
    /\ UNCHANGED << frVars, stVars, ic, gp, tn, pf >>

\* thread(rx), before the loop: the window and the glyphs are built
WorkerSetup ==
    /\ eeg.worker = "init"
    /\ \E built \in BOOLEAN :
         eeg' = [eeg EXCEPT !.worker = IF built THEN "next" ELSE "panicked"]
    /\ UNCHANGED << frVars, stVars, ic, gp, tn, pf >>

\* the loop of the worker: window.next()
WorkerNext ==
    /\ eeg.worker = "next"
    /\ \E event \in {"Some", "None"} :
         eeg' = [eeg EXCEPT !.worker = IF WindowNextMatch(event) = "recv"
                                       THEN "recv" ELSE "exited"]
    /\ UNCHANGED << frVars, stVars, ic, gp, tn, pf >>

\* the loop of the worker: rx.recv(), then the message is drawn
WorkerRecv ==
    /\ eeg.worker = "recv"
    /\ IF eeg.chan # << >>
       THEN \E drawn \in BOOLEAN :
              /\ ~drawn => eeg.chan[1].n > 0
              /\ eeg' = [eeg EXCEPT !.chan = Tail(@),
                                    !.received = @ + 1,
                                    !.worker = IF drawn THEN "next" ELSE "panicked"]
       ELSE /\ RecvEmpty(eeg.tx) = "None"
            /\ eeg' = [eeg EXCEPT !.worker = "exited"]
    /\ UNCHANGED << frVars, stVars, ic, gp, tn, pf >>

NextEEG ==
    \/ EegDraw
    \/ EegShow
    \/ EegDropTx
    \/ EegJoin
    \/ WorkerSetup
    \/ WorkerNext
    \/ WorkerRecv

SpecEEG == InitEEG /\ [][NextEEG]_vars

\* C22: draw and show never wait for the worker: while the EEG is alive each
\* of them can be taken whatever the worker is doing (starting, waiting for
\* a window event, receiving, exited or panicked) and however many messages
\* are queued, so the tick that calls them always completes.
C22_SinkNeverBlocks ==
    eeg # [pc |-> "parked"] /\ eeg.core = "running" =>
        /\ eeg.draw_list < MaxDrawables => ENABLED EegDraw
        /\ eeg.sent < MaxShows => ENABLED EegShow
C22_Witness ==
    /\ eeg # [pc |-> "parked"]
    /\ eeg.core = "running"
    /\ eeg.worker \in {"exited", "panicked"}
    /\ eeg.sent = MaxShows
    /\ Len(eeg.chan) >= 2

\* C23 (as stated): one worker is started, and once the EEG is dropped and
\* the worker has ended, every message sent before the drop has been
\* received by the worker.
C23_DrainedBeforeExit ==
    eeg # [pc |-> "parked"] =>
        /\ eeg.spawned = 1
        /\ (~eeg.tx /\ eeg.worker \in {"exited", "panicked"}) =>
              (eeg.received = eeg.sent /\ eeg.chan = << >>)

(***************************************************************************)
(* SkidRecover (brain/src/mechanics/skip_recover.rs).  Angles and the      *)
(* fields of the command are in hundredths (of a radian, of full           *)
(* deflection); rotations are given by their angle.                        *)
(***************************************************************************)

\* an angle in hundredths of a radian brought into (-pi, pi], the range of
\* UnitComplex::angle
NormRad(a) == LET m == a % 628 IN IF m > 314 THEN m - 628 ELSE m

SkidRots == {0, 157, -300}
SkidTargetDirs == {0, 100, 314, -157}
\* me.Physics.ang_vel().z, in hundredths of a radian per second
SkidAngVels == {-400, 0, 200, 1200}

\* SkidRecover::execute2; target_dir is the direction of me_to_target
SkidRecover_execute2_returns_when_aligned(me_rot, target_dir, me_ang_vel) ==
    LET target_rot == NormRad(target_dir)
        future_rot == NormRad(target_rot + me_ang_vel \div 4)
        steer == Min(Max(NormRad(future_rot - me_rot), -100), 100)
    IN IF steer = 0 THEN Return ELSE Yield(PlayerInput(100, steer, FALSE))
SkidRecover_execute2(me_rot, target_dir, me_ang_vel) ==
    LET target_rot == NormRad(target_dir)
        future_rot == NormRad(target_rot + me_ang_vel \div 4)
        steer == Min(Max(NormRad(future_rot - me_rot), -100), 100)
    IN Yield(PlayerInput(100, steer, FALSE))

(***************************************************************************)
(* The commands of Turner, SkidRecover and WallHit's drive step, each      *)
(* computed once from inputs.  `unit` is the value that stands for 1.0 in  *)
(* the command's analog fields.                                            *)
(***************************************************************************)

\* every sub-model except the single call `pf`
AllButCallParked ==
    /\ ProgramParked
    /\ ic = [pc |-> "parked"]
    /\ gp = [pc |-> "parked"]
    /\ tn = [pc |-> "parked"]
    /\ eeg = [pc |-> "parked"]
callFrame == << frVars, stVars, ic, gp, tn, eeg >>

InitCommands ==
    /\ AllButCallParked
    /\ pf = [pc |-> "call"]

CommandTurner ==
    /\ pf.pc = "call"
    /\ \E start \in StartCarStates, p \in ProjectedThs, me \in MeStates :
         LET a == Turner_execute_old(Turn_new(start, p), me)
         IN /\ a.out = "Yield"
            /\ pf' = [pc |-> "done", behavior |-> "Turner",
                      in |-> << start, p, me >>, unit |-> 1,
                      cmd |-> PlayerInput(a.throttle, a.steer, FALSE)]
    /\ UNCHANGED callFrame

CommandSkidRecover ==
    /\ pf.pc = "call"
    /\ \E r \in SkidRots, t \in SkidTargetDirs, w \in SkidAngVels :
         pf' = [pc |-> "done", behavior |-> "SkidRecover", in |-> << r, t, w >>,
                unit |-> 100, cmd |-> SkidRecover_execute2(r, t, w).arg]
    /\ UNCHANGED callFrame

CommandWallHitDrive ==
    /\ pf.pc = "call"
    /\ \E below \in BOOLEAN, tt \in Times, jt \in Times, st \in SteerAngles :
       \E co \in Offsets, th \in Offsets, bl \in Offsets :
         LET approach == calculate_approach(tt, jt, co, th, bl)
         IN /\ approach.step = "Drive"
            /\ pf' = [pc |-> "done", behavior |-> "WallHit",
                      in |-> << below, tt, jt, st, co, th, bl >>, unit |-> 1,
                      cmd |-> drive(below, st, approach.throttle, approach.boost).arg]
    /\ UNCHANGED callFrame

NextCommands ==
    \/ CommandTurner
    \/ CommandSkidRecover
    \/ CommandWallHitDrive

SpecCommands == InitCommands /\ [][NextCommands]_vars

MaxWhileTicks == 3

\* While::execute_old: the action, and the calls made in their order
While_execute_old_child_first(holds, childAction) ==
    IF ~holds
    THEN [action |-> Return, calls |-> << "child.execute_old", "predicate.evaluate" >>]
    ELSE [action |-> childAction,
          calls |-> << "child.execute_old", "predicate.evaluate" >>]
While_execute_old(holds, childAction) ==
    IF ~holds
    THEN [action |-> Return, calls |-> << "predicate.evaluate" >>]
    ELSE [action |-> childAction,
          calls |-> << "predicate.evaluate", "child.execute_old" >>]

InitWhile ==
    /\ AllButCallParked
    /\ pf = [pc |-> "run", n |-> 0, holds |-> TRUE, child |-> Return,
             out |-> [action |-> Return, calls |-> << >>], hist |-> << >>]

\* one tick on which While is the active behaviour; it stays on the stack
\* after a Yield or a Call
WhileTick ==
    /\ pf.pc = "run"
    /\ pf.n < MaxWhileTicks
    /\ \E holds \in BOOLEAN, childAction \in OtherActions :
         LET r == While_execute_old(holds, childAction)
         IN pf' = [pc |-> IF r.action.kind \in {"Yield", "Call"} THEN "run" ELSE "done",
                   n |-> pf.n + 1, holds |-> holds, child |-> childAction, out |-> r,
                   hist |-> Append(pf.hist, r.action.kind)]
    /\ UNCHANGED callFrame

NextWhile == WhileTick

SpecWhile == InitWhile /\ [][NextWhile]_vars

\* C25: on every tick the predicate is evaluated first; when it is false the
\* behaviour returns Return and the child is not executed on that tick, when
\* it is true the behaviour returns exactly the child's action.
C25_WhileGuardsChild ==
    (pf.pc \in {"run", "done"} /\ pf.n >= 1) =>
        /\ pf.out.calls[1] = "predicate.evaluate"
        /\ ~pf.holds =>
              /\ pf.out.action = Return
              /\ \A i \in 1..Len(pf.out.calls) : pf.out.calls[i] # "child.execute_old"
        /\ pf.holds =>
              /\ pf.out.action = pf.child
              /\ pf.out.calls = << "predicate.evaluate", "child.execute_old" >>
C25_Witness ==
    /\ pf.pc = "done"
    /\ pf.n = 3
    /\ ~pf.holds
    /\ pf.child.kind = "Yield"
    /\ pf.out.action = Return
    /\ pf.hist = << "Yield", "Call", "Return" >>

(***************************************************************************)
(* avoid_goal_wall_waypoint (brain/src/routing/plan/pathing.rs).           *)
(* Locations are whole field units.  The car's forward axis is given as a  *)
(* direction vector << x, y >> with y # 0, and the division by ray.y is    *)
(* carried out exactly by comparing the numerators.  The values of         *)
(* rl::GOALPOST_X (892.755, rounded here) and rl::FIELD_MAX_Y are the      *)
(* field's dimensions.                                                      *)
(***************************************************************************)
GOALPOST_X == 893
FIELD_MAX_Y == 5120
\* let margin = 125.0
margin == 125

PathStartLocs == {<< 0, 4000 >>, << 500, 4000 >>, << -600, -4000 >>, << 1200, 4000 >>}
PathRays == {<< 0, 1 >>, << 1, 1 >>, << -1, 1 >>, << 0, -1 >>, << 1, -1 >>, << 1, 4 >>}
PathTargets ==
    {<< 0, 5200 >>, << 2000, 5200 >>, << -3000, 5200 >>, << 0, -5200 >>, << 0, 3000 >>}

\* avoid_goal_wall_waypoint(start, target_loc), start given by its location
\* and its forward axis
avoid_goal_wall_waypoint(loc, ray, target_loc) ==
    LET side == Signum(loc[2])
        brink == FIELD_MAX_Y * side
    IN IF Signum(brink - loc[2]) = Signum(brink - target_loc[2])
       THEN None
       ELSE IF Abs(loc[1]) >= GOALPOST_X + 200
       THEN None
       ELSE LET brink2 == (FIELD_MAX_Y - 50) * side
                \* cross_x * ray.y, for cross_x = loc.x + toi * ray.x
                cross_x_num == loc[1] * ray[2] + (brink2 - loc[2]) * ray[1]
                cross_x_signum == Signum(cross_x_num) * Signum(ray[2])
            IN IF Abs(cross_x_num) >= (GOALPOST_X - margin) * Abs(ray[2])
               THEN Some(<< (GOALPOST_X - margin) * cross_x_signum,
                            (FIELD_MAX_Y - margin) * side >>)
               ELSE None

InitPathing ==
    /\ AllButCallParked
    /\ \E loc \in PathStartLocs, ray \in PathRays, t \in PathTargets :
         pf = [pc |-> "call", loc |-> loc, ray |-> ray, target_loc |-> t,
               waypoint |-> None]

AvoidGoalWallWaypoint ==
    /\ pf.pc = "call"
    /\ pf' = [pf EXCEPT !.pc = "done",
                        !.waypoint = avoid_goal_wall_waypoint(pf.loc, pf.ray,
                                                              pf.target_loc)]
    /\ UNCHANGED callFrame

NextPathing == AvoidGoalWallWaypoint

SpecPathing == InitPathing /\ [][NextPathing]_vars

\* the straight path from the start location to the target location crosses
\* the goal line of the start's half outside the goal mouth less the margin
StraightPathHitsGoalWall ==
    LET sx == pf.loc[1]
        sy == pf.loc[2]
        tx == pf.target_loc[1]
        ty == pf.target_loc[2]
        line == 5120 * (IF sy < 0 THEN -1 ELSE 1)
        crosses == (sy < line /\ line < ty) \/ (ty < line /\ line < sy)
        num == sx * (ty - sy) + (line - sy) * (tx - sx)
        den == IF ty - sy < 0 THEN sy - ty ELSE ty - sy
    IN crosses /\ (IF num < 0 THEN -num ELSE num) >= (893 - 125) * den

\* C26 (as stated): a waypoint is returned exactly when the straight path
\* from the start location to target_loc crosses the goal line outside the
\* goal mouth less the margin; a returned waypoint lies at
\* |x| = GOALPOST_X - 125 and |y| = FIELD_MAX_Y - 125 on the start's side.
C26_WaypointIffPathHitsWall ==
    pf.pc = "done" =>
        /\ pf.waypoint # None <=> StraightPathHitsGoalWall
        /\ pf.waypoint # None =>
              /\ pf.waypoint[1][1] \in {893 - 125, -(893 - 125)}
              /\ pf.waypoint[1][2] = (5120 - 125) * (IF pf.loc[2] < 0 THEN -1 ELSE 1)

(***************************************************************************)
(* blocking_angle (brain/src/behavior/defense/defense.rs).  Angles are     *)
(* whole degrees; the angles from the ball to the car and from the ball to *)
(* the location to block are inputs, in the range of angle_to.             *)
(***************************************************************************)
BlockAngles == {-170, -90, 0, 45, 100, 180}
MaxAngleDiffs == {0, 30, 90, 180}

\* f32::normalize_angle
normalize_angle(a) == NormDeg(a)

\* blocking_angle, for naive_angle and block_angle as computed by angle_to
blocking_angle_raw_difference(naive_angle, block_angle, max_angle_diff) ==
    LET adjust == Min(Max(block_angle - naive_angle, -max_angle_diff), max_angle_diff)
    IN normalize_angle(naive_angle + adjust)
blocking_angle(naive_angle, block_angle, max_angle_diff) ==
    LET adjust == Min(Max(normalize_angle(block_angle - naive_angle), -max_angle_diff),
                      max_angle_diff)
    IN normalize_angle(naive_angle + adjust)

InitBlocking ==
    /\ AllButCallParked
    /\ \E n \in BlockAngles, b \in BlockAngles, m \in MaxAngleDiffs :
         pf = [pc |-> "call", naive_angle |-> n, block_angle |-> b,
               max_angle_diff |-> m, result |-> 0]

BlockingAngle ==
    /\ pf.pc = "call"
    /\ pf' = [pf EXCEPT !.pc = "done",
                        !.result = blocking_angle(pf.naive_angle, pf.block_angle,
                                                  pf.max_angle_diff)]
    /\ UNCHANGED callFrame

NextBlocking == BlockingAngle

SpecBlocking == InitBlocking /\ [][NextBlocking]_vars

\* the difference of two angles, taken the short way round
AngleBetween(a, b) ==
    LET m == (b - a) % 360
    IN IF m > 180 THEN 360 - m ELSE m

\* C27: the returned angle differs from the naive ball-to-car angle by at
\* most max_angle_diff (mod 360 degrees), and equals the ball-to-block angle
\* whenever that lies within max_angle_diff of the naive angle.
C27_AdjustBounded ==
    pf.pc = "done" =>
        /\ AngleBetween(pf.naive_angle, pf.result) <= pf.max_angle_diff
        /\ AngleBetween(pf.naive_angle, pf.block_angle) <= pf.max_angle_diff =>
              AngleBetween(pf.result, pf.block_angle) = 0
        /\ -180 <= pf.result /\ pf.result <= 180
C27_Witness ==
    /\ pf.pc = "done"
    /\ pf.naive_angle = -170
    /\ pf.block_angle = 180
    /\ pf.max_angle_diff = 30
    /\ pf.result = 180

(***************************************************************************)
(* One tick of WallHit with the events it tracks                           *)
(* (brain/src/behavior/strike/wall_hit.rs).  Angles are whole degrees.     *)
(* The intercept's distance from the surface is given as its clearance,    *)
(* the distance minus BALL_RADIUS, together with the outcome of the        *)
(* comparison with MAX_BALL_DISTANCE_FROM_SURFACE.                         *)
(***************************************************************************)
FlatSteers == {-90, -60, -59, 0, 59, 60}
InterceptDistances ==
    {[clearance |-> c, too_far |-> FALSE] : c \in {-10, 24, 25, 26}}
    \cup {[clearance |-> 300, too_far |-> TRUE]}

\* path.intercept_distance_from_surface < rl::BALL_RADIUS + 25.0
HugsSurface(clearance) == clearance < 25

\* flat_target: the checks in order, and the events tracked on the way
flat_target_tracks_every_error(wallsInvolved, unfoldOk, steer, too_far) ==
    IF ~wallsInvolved THEN [ok |-> FALSE, tracked |-> {"WallHitNotFacingTarget"}]
    ELSE IF ~unfoldOk THEN [ok |-> FALSE, tracked |-> {"WallHitNotFacingTarget"}]
    ELSE IF Abs(steer) >= 60 THEN [ok |-> FALSE, tracked |-> {"WallHitNotFacingTarget"}]
    ELSE IF too_far THEN [ok |-> FALSE, tracked |-> {"WallHitNotFacingTarget"}]
    ELSE [ok |-> TRUE, tracked |-> {}]
flat_target(wallsInvolved, unfoldOk, steer, too_far) ==
    IF ~wallsInvolved THEN [ok |-> FALSE, tracked |-> {}]
    ELSE IF ~unfoldOk THEN [ok |-> FALSE, tracked |-> {}]
    ELSE IF Abs(steer) >= 60 THEN [ok |-> FALSE, tracked |-> {"WallHitNotFacingTarget"}]
    ELSE IF too_far THEN [ok |-> FALSE, tracked |-> {}]
    ELSE [ok |-> TRUE, tracked |-> {}]

\* jump: the event tracked, and the input of the Yielder it hands off to
jump_track(clearance) ==
    IF HugsSurface(clearance) THEN {"WallHitFinishedWithoutJump"} ELSE {}
jump_follow_through ==
    [Throttle |-> 1, Steer |-> 0, Boost |-> FALSE, Jump |-> FALSE]

\* WallHit::execute_old: the step taken, the action returned, the events
\* tracked during the tick, and the inputs of a Yielder handed off to
WallHit_tick(onGround, hasIntercept, wallsInvolved, unfoldOk, steer, dist, approach) ==
    LET flat == flat_target(wallsInvolved, unfoldOk, steer, dist.too_far)
        reached == onGround /\ hasIntercept
        r == WallHit_execute_old(onGround, hasIntercept, flat.ok, approach, TRUE,
                                 0, HugsSurface(dist.clearance))
    IN [step |-> r.step,
        action |-> r.action,
        tracked |-> (IF reached THEN flat.tracked ELSE {})
                    \cup (IF r.step = "Jump" THEN jump_track(dist.clearance) ELSE {}),
        yielder |-> IF r.action = TailCall("Yielder")
                    THEN Some(jump_follow_through) ELSE None]

InitWallHit ==
    /\ AllButCallParked
    /\ \E onGround, hasIntercept, wallsInvolved, unfoldOk \in BOOLEAN :
       \E steer \in FlatSteers, dist \in InterceptDistances :
       \E tt, jt \in Times :
         pf = [pc |-> "call", onGround |-> onGround, hasIntercept |-> hasIntercept,
               wallsInvolved |-> wallsInvolved, unfoldOk |-> unfoldOk,
               steer |-> steer, dist |-> dist, target_time |-> tt, jump_time |-> jt,
               result |-> [step |-> "-", action |-> Return, tracked |-> {},
                           yielder |-> None]]

WallHitTick ==
    /\ pf.pc = "call"
    /\ pf' = [pf EXCEPT !.pc = "done",
                !.result = WallHit_tick(pf.onGround, pf.hasIntercept, pf.wallsInvolved,
                              pf.unfoldOk, pf.steer, pf.dist,
                              calculate_approach(pf.target_time, pf.jump_time,
                                                 target_offset, target_offset,
                                                 target_offset))]
    /\ UNCHANGED callFrame

NextWallHit == WallHitTick

SpecWallHit == InitWallHit /\ [][NextWallHit]_vars

\* C28: in the jump step, an intercept closer to the surface than
\* BALL_RADIUS + 25 tracks WallHitFinishedWithoutJump and tail-calls a
\* Yielder whose input is throttle only, with no jump; otherwise the step
\* tail-calls the JumpAndTurn-then-Dodge chain and does not track the event.
\* WallHitNotFacingTarget is tracked only on a tick that aborts with a steer
\* angle of at least 60 degrees.
C28_JumpStepAndFacingEvent ==
    pf.pc = "done" =>
        /\ (pf.result.step = "Jump" /\ pf.dist.clearance < 25) =>
              /\ "WallHitFinishedWithoutJump" \in pf.result.tracked
              /\ pf.result.action = TailCall("Yielder")
              /\ pf.result.yielder = Some([Throttle |-> 1, Steer |-> 0,
                                           Boost |-> FALSE, Jump |-> FALSE])
        /\ (pf.result.step = "Jump" /\ pf.dist.clearance >= 25) =>
              /\ "WallHitFinishedWithoutJump" \notin pf.result.tracked
              /\ pf.result.action = TailCall("Chain")
        /\ "WallHitNotFacingTarget" \in pf.result.tracked =>
              /\ pf.result.action = Abort
              /\ Abs(pf.steer) >= 60
              /\ pf.onGround /\ pf.hasIntercept /\ pf.wallsInvolved /\ pf.unfoldOk
C28_Witness ==
    /\ pf.pc = "done"
    /\ pf.result.step = "Jump"
    /\ pf.dist.clearance = 24
    /\ pf.steer = 59
    /\ pf.result.tracked = {"WallHitFinishedWithoutJump"}
    /\ pf.result.action = TailCall("Yielder")

(***************************************************************************)
(* Defense and PushToOwnCorner (brain/src/behavior/defense/defense.rs).    *)
(* Possession and times are in tenths of a second, angles in whole         *)
(* degrees, distances in uu.  The scenario (possession, intercepts, the    *)
(* impending concede) and Scenario::POSSESSION_CONTESTABLE are outside the *)
(* sources: they are inputs, the threshold a non-negative one.             *)
(***************************************************************************)
Possessions == {-41, -40, -6, -5, -4, 0, 4, 5, 29, 30, 31, 40}
ContestableThresholds == {0, 5, 40}
\* scenario.impending_concede(): none, or the time of the frame
ImpendingConcedes == {None, Some(49), Some(50), Some(51)}
\* distances along the goal-to-ball axis
AxisDists == {500, 1000, 1500}
DefendingAngles == {-60, 0, 59, 60, 180}
\* |me_loc.y - goal_loc.y|
GoalYDists == {0, 499, 500}

\* Defense::is_between_ball_and_own_goal
is_between_ball_and_own_goal(ball_dist, me_dist, defending_angle, goal_y_dist) ==
    IF ball_dist <= me_dist
    THEN FALSE
    ELSE IF Abs(defending_angle) >= 60 /\ goal_y_dist >= 500
         THEN FALSE
         ELSE TRUE

\* Defense::execute
Defense_execute_leaves_when_ahead(between, possession, contestable) ==
    IF ~between
    THEN Call("Retreat")
    ELSE IF possession < contestable
         THEN Call("Chain[FollowRoute(GroundIntercept), GroundedHit]")
         ELSE Return
Defense_execute(between, possession, contestable) ==
    IF ~between
    THEN Call("Retreat")
    ELSE IF possession < contestable
         THEN Call("Chain[FollowRoute(GroundIntercept), GroundedHit]")
         ELSE Call("TepidHit")

\* PushToOwnCorner::execute: impending_concede_soon, then the match on the
\* two intercepts
impending_concede_soon(concede) == IF concede = None THEN FALSE ELSE concede[1] < 50
PushToOwnCorner_execute_own_intercept_first(concede, me_intercept, enemy_shootable_intercept, possession, contestable) ==
    IF ~me_intercept
    THEN Abort
    ELSE IF ~enemy_shootable_intercept
    THEN (IF ~impending_concede_soon(concede) THEN Return ELSE Call("HitToOwnCorner"))
    ELSE IF possession >= 30 THEN Abort
         ELSE IF possession >= contestable THEN Call("HitToOwnCorner")
         ELSE IF possession >= -contestable THEN Call("HitToOwnCorner")
         ELSE Abort
PushToOwnCorner_execute(concede, me_intercept, enemy_shootable_intercept, possession, contestable) ==
    IF ~enemy_shootable_intercept
    THEN (IF ~impending_concede_soon(concede) THEN Return ELSE Call("HitToOwnCorner"))
    ELSE IF ~me_intercept
    THEN Abort
    ELSE IF possession >= 30 THEN Abort
         ELSE IF possession >= contestable THEN Call("HitToOwnCorner")
         ELSE IF possession >= -contestable THEN Call("HitToOwnCorner")
         ELSE Abort

InitDefense ==
    /\ AllButCallParked
    /\ pf = [pc |-> "call"]

ExecutePushToOwnCorner ==
    /\ pf.pc = "call"
    /\ \E concede \in ImpendingConcedes, me, enemy \in BOOLEAN :
       \E possession \in Possessions, contestable \in ContestableThresholds :
         pf' = [pc |-> "done", behavior |-> "PushToOwnCorner",
                in |-> [concede |-> concede, me_intercept |-> me,
                        enemy_shootable_intercept |-> enemy,
                        possession |-> possession, contestable |-> contestable],
                action |-> PushToOwnCorner_execute(concede, me, enemy, possession,
                                                   contestable)]
    /\ UNCHANGED callFrame

ExecuteDefense ==
    /\ pf.pc = "call"
    /\ \E ball_dist, me_dist \in AxisDists, angle \in DefendingAngles :
       \E y \in GoalYDists, possession \in Possessions :
       \E contestable \in ContestableThresholds :
         LET between == is_between_ball_and_own_goal(ball_dist, me_dist, angle, y)
         IN pf' = [pc |-> "done", behavior |-> "Defense",
                   in |-> [ball_dist |-> ball_dist, me_dist |-> me_dist,
                           defending_angle |-> angle, goal_y_dist |-> y,
                           between |-> between,
                           possession |-> possession, contestable |-> contestable],
                   action |-> Defense_execute(between, possession, contestable)]
    /\ UNCHANGED callFrame

NextDefense ==
    \/ ExecutePushToOwnCorner
    \/ ExecuteDefense

SpecDefense == InitDefense /\ [][NextDefense]_vars

\* C33: PushToOwnCorner returns only Return, Abort or Call(HitToOwnCorner):
\* without an enemy shootable intercept, Return if no concede is impending
\* before 5 s and Call otherwise, whether or not the agent has an intercept;
\* with an enemy intercept but none of its own, Abort; with both, Call iff
\* -POSSESSION_CONTESTABLE <= possession < 3.0 and Abort otherwise.
C33_PushToOwnCornerTable ==
    (pf.pc = "done" /\ pf.behavior = "PushToOwnCorner") =>
        LET in == pf.in
            soon == in.concede # None /\ in.concede[1] < 50
        IN /\ pf.action \in {Return, Abort, Call("HitToOwnCorner")}
           /\ ~in.enemy_shootable_intercept =>
                 pf.action = (IF soon THEN Call("HitToOwnCorner") ELSE Return)
           /\ (in.enemy_shootable_intercept /\ ~in.me_intercept) => pf.action = Abort
           /\ (in.enemy_shootable_intercept /\ in.me_intercept) =>
                 pf.action = (IF -in.contestable <= in.possession /\ in.possession < 30
                              THEN Call("HitToOwnCorner") ELSE Abort)
C33_Witness ==
    /\ pf.pc = "done"
    /\ pf.behavior = "PushToOwnCorner"
    /\ ~pf.in.enemy_shootable_intercept
    /\ ~pf.in.me_intercept
    /\ pf.in.concede = Some(49)
    /\ pf.action = Call("HitToOwnCorner")

\* C34: Defense always returns a Call: Retreat when the agent is not between
\* the ball and its own goal, else the FollowRoute-then-GroundedHit chain
\* when possession is below POSSESSION_CONTESTABLE and TepidHit otherwise.
C34_DefenseAlwaysCalls ==
    (pf.pc = "done" /\ pf.behavior = "Defense") =>
        LET in == pf.in
            between == /\ in.ball_dist > in.me_dist
                       /\ ~(Abs(in.defending_angle) >= 60 /\ in.goal_y_dist >= 500)
        IN /\ pf.action.kind = "Call"
           /\ pf.action =
                 (IF ~between THEN Call("Retreat")
                  ELSE IF in.possession < in.contestable
                       THEN Call("Chain[FollowRoute(GroundIntercept), GroundedHit]")
                       ELSE Call("TepidHit"))
C34_Witness ==
    /\ pf.pc = "done"
    /\ pf.behavior = "Defense"
    /\ pf.in.ball_dist > pf.in.me_dist
    /\ pf.in.defending_angle = 180
    /\ pf.in.goal_y_dist = 499
    /\ pf.in.possession >= pf.in.contestable
    /\ pf.action = Call("TepidHit")

(***************************************************************************)
(* SkidRecover ticked while it stays on the stack                          *)
(* (brain/src/mechanics/skip_recover.rs): each tick reads the car anew.    *)
(***************************************************************************)
MaxSkidTicks == 3

InitSkid ==
    /\ AllButCallParked
    /\ pf = [pc |-> "run", n |-> 0, in |-> << >>, action |-> None]

\* one call of execute2; the behaviour is called again only after a Yield
SkidRecoverTick ==
    /\ pf.pc = "run"
    /\ pf.n < MaxSkidTicks
    /\ \E r \in SkidRots, t \in SkidTargetDirs, w \in SkidAngVels :
         LET a == SkidRecover_execute2(r, t, w)
         IN pf' = [pc |-> IF a.kind = "Yield" THEN "run" ELSE "done",
                   n |-> pf.n + 1, in |-> << r, t, w >>, action |-> Some(a)]
    /\ UNCHANGED callFrame

NextSkid == SkidRecoverTick

SpecSkid == InitSkid /\ [][NextSkid]_vars

\* C35: every call of SkidRecover's execute returns Yield with Throttle 1.0,
\* for every car state and target, so the behaviour never completes on its
\* own and stays ready to be called again.
C35_SkidRecoverAlwaysYields ==
    pf.n >= 1 =>
        /\ pf.action[1].kind = "Yield"
        /\ pf.action[1].arg.Throttle = 100
        /\ pf.pc = "run"
C35_Witness ==
    /\ pf.n = 3
    /\ pf.pc = "run"
    /\ pf.in = << 0, 0, 0 >>
    /\ pf.action[1] = Yield(PlayerInput(100, 0, FALSE))

(***************************************************************************)
(* calculate_approach called once (brain/src/behavior/strike/wall_hit.rs). *)
(* The intercept time, the jump time of calculate_jump and the offsets the *)
(* three trials end at (simulations outside the sources) are inputs.       *)
(***************************************************************************)
InitApproach ==
    /\ AllButCallParked
    /\ \E tt, jt \in Times : \E co, th, bl \in Offsets :
         pf = [pc |-> "call", target_time |-> tt, jump_time |-> jt,
               coast_offset |-> co, throttle_offset |-> th, blitz_offset |-> bl,
               result |-> None]

CalculateApproach ==
    /\ pf.pc = "call"
    /\ pf' = [pf EXCEPT !.pc = "done",
                !.result = Some(calculate_approach(pf.target_time, pf.jump_time,
                                    pf.coast_offset, pf.throttle_offset,
                                    pf.blitz_offset))]
    /\ UNCHANGED callFrame

NextApproach == CalculateApproach

SpecApproach == InitApproach /\ [][NextApproach]_vars

\* C36: calculate_approach returns Jump iff the intercept time minus the jump
\* time is negative; otherwise it returns Drive(throttle, boost) with
\* throttle 0 or 1, boost only with throttle 1 and only when the coast, the
\* full-throttle and the boost trial all end at or short of the target
\* offset (-10), and throttle 0 whenever the coast or the full-throttle
\* trial overshoots it.
C36_ApproachLadder ==
    pf.pc = "done" =>
        LET r == pf.result[1]
            over(x) == x > -10
        IN /\ r.step = "Jump" <=> pf.target_time - pf.jump_time < 0
           /\ r.step # "Jump" =>
                 /\ r.step = "Drive"
                 /\ r.throttle \in {0, 1}
                 /\ r.boost => r.throttle = 1
                 /\ r.boost <=> (/\ ~over(pf.coast_offset)
                                 /\ ~over(pf.throttle_offset)
                                 /\ ~over(pf.blitz_offset))
                 /\ r.throttle = 0 <=> (over(pf.coast_offset) \/ over(pf.throttle_offset))
C36_Witness ==
    /\ pf.pc = "done"
    /\ pf.target_time = pf.jump_time
    /\ pf.coast_offset = -20
    /\ pf.throttle_offset = -10
    /\ pf.blitz_offset = 0
    /\ pf.result[1] = [step |-> "Drive", throttle |-> 1, boost |-> FALSE]

(***************************************************************************)
(* SimJump::simulate (brain/src/behavior/strike/wall_hit.rs): the          *)
(* durations handed to the two calls of kinematic.  Times are hundredths   *)
(* of a second; rl::CAR_JUMP_FORCE_TIME is outside the sources and is an   *)
(* input.  calculate_jump asserts jump_time < 1.0.                         *)
(***************************************************************************)
JumpTimes == {5 * k : k \in 0..19}
JumpForceTimes == {15, 20, 25}

\* SimJump::simulate: force_time and coast_time
SimJump_simulate(time, CAR_JUMP_FORCE_TIME) ==
    LET force_time == Min(time, CAR_JUMP_FORCE_TIME)
        coast_time == Max(force_time - CAR_JUMP_FORCE_TIME, 0)
    IN [force_time |-> force_time, coast_time |-> coast_time]

InitJump ==
    /\ AllButCallParked
    /\ \E time \in JumpTimes, ft \in JumpForceTimes :
         pf = [pc |-> "call", time |-> time, CAR_JUMP_FORCE_TIME |-> ft,
               result |-> None]

SimJumpSimulate ==
    /\ pf.pc = "call"
    /\ pf' = [pf EXCEPT !.pc = "done",
                        !.result = Some(SimJump_simulate(pf.time, pf.CAR_JUMP_FORCE_TIME))]
    /\ UNCHANGED callFrame

NextJump == SimJumpSimulate

SpecJump == InitJump /\ [][NextJump]_vars

\* C37: the forced-jump phase lasts min(time, CAR_JUMP_FORCE_TIME), the
\* coasting phase lasts the remainder, and the two durations sum to `time`.
C37_PhasesSumToTime ==
    pf.pc = "done" =>
        /\ pf.result[1].force_time = Min(pf.time, pf.CAR_JUMP_FORCE_TIME)
        /\ pf.result[1].coast_time = pf.time - pf.result[1].force_time
        /\ pf.result[1].force_time + pf.result[1].coast_time = pf.time

====
